---- MODULE Spec2Model ----
(***************************************************************************)
(* Transaction relay engine of the Monad runner game backend.              *)
(*                                                                         *)
(* Two copies of the server are in the repository: src/backend/Server.js   *)
(* (variant "backend") and src/unnamed/part_000 (variant "root").  They    *)
(* share processTransaction and retryPendingTransactions except for the    *)
(* transfer destination (line 83 against part_000 line 64); their /jump    *)
(* handlers differ in when they respond (lines 138-151 against part_000    *)
(* lines 116-123).                                                         *)
(*                                                                         *)
(* JavaScript runs every stretch of code between two awaits to completion, *)
(* so there is one action per such stretch; what the network answers is    *)
(* the input of the action that resumes after the await.                   *)
(*                                                                         *)
(* An optional value (undefined / null in the source) is a sequence of     *)
(* length at most one: << >> is "absent", <<v>> is "v".                    *)
(*                                                                         *)
(* ethers v6 semantics relied on (the library the source calls):           *)
(*   nonceManager.getNonce()        the signer's transaction count at the  *)
(*                                  latest block; it allocates nothing.    *)
(*   nonceManager.sendTransaction   takes base + delta as the nonce, where *)
(*                                  base is the "pending" transaction      *)
(*                                  count fetched once and cached, and     *)
(*                                  delta counts earlier sendTransaction   *)
(*                                  calls; it increments delta before any  *)
(*                                  await and overwrites tx.nonce.         *)
(*   response.wait()                resolves with the receipt once the     *)
(*                                  transaction is mined, or rejects.      *)
(*   provider.getTransactionReceipt null until the transaction is mined.   *)
(***************************************************************************)
EXTENDS Integers, Sequences, FiniteSets, TLC

\* ---------------------------------------------------------------- bounds
\* processTransaction invocations in one behaviour (callers and resends).
MaxCalls == 2
Procs == 1..MaxCalls
\* largest transaction count the network reports to a pair of runs
MaxNonce == 1

\* ------------------------------------------------------------ input sets
Variants == {"backend", "root"}
\* the (score, address) bodies of the /jump requests
Requests == {<<42, "0xABC">>, <<7, "0xDEF">>}
\* process.env.OWNER_WALLET
OWNER_WALLET == "0xOWNER"
\* A fee component as getFeeData reports it: null, 0n or a positive bigint.
FeeQuotes ==
    { [maxPriorityFeePerGas |-> <<1>>, maxFeePerGas |-> <<10>>],
      [maxPriorityFeePerGas |-> << >>, maxFeePerGas |-> <<10>>],
      [maxPriorityFeePerGas |-> <<1>>, maxFeePerGas |-> << >>],
      [maxPriorityFeePerGas |-> <<0>>, maxFeePerGas |-> <<10>>] }

\* ethers.parseEther('0.0001') is 10^14 wei; kept here in gwei (10^9 wei)
\* because the value is never computed with, only carried.
TX_VALUE_GWEI == 100000
GAS_LIMIT == 21000

\* error.message of the errors the try block can raise
ERR_NONCE == "could not fetch nonce"
ERR_FEE_RPC == "could not reach fee endpoint"
\* The message of line 78 begins with U+26A0 U+FE0F (the warning sign) and a
\* space; the two characters are outside ASCII and are written as their
\* JSON escapes.
ERR_FEE == "\\u26A0\\uFE0F Could not fetch gas fee data."
ERR_SEND == "broadcast rejected"

\* what line 70 can resolve with, and every content the Set of line 64 can
\* have when processTransaction is called
NonceAnswers == 0..MaxNonce
NonceSets == SUBSET NonceAnswers
\* two runs of the engine that are given the same calls and the same answers
Runs == {1, 2}

VARIABLES
    variant,      \* which copy of the server runs
    chainCount,   \* network: mined transactions of the wallet (latest count)
    accepted,     \* network: transactions it accepted, by hash
    mined,        \* network: hashes of mined transactions
    nmState,      \* NonceManager #noncePromise: null, pending, resolved
    nmBase,       \* value #noncePromise resolved to
    nmDelta,      \* NonceManager #delta
    usedNonces,   \* the Set of line 64
    pendingTransactions, \* the Map of line 63, entries in insertion order
    proc,         \* the processTransaction invocations
    rec,          \* the retryPendingTransactions pass
    responses,    \* what the /jump handler of each request has sent
    runs          \* the engine state of each of a pair of runs

engineVars == <<variant, chainCount, accepted, mined, nmState, nmBase, nmDelta,
                usedNonces, pendingTransactions, proc, rec, responses>>

vars == <<engineVars, runs>>

netVars == <<chainCount, accepted, mined>>
nmVars == <<nmState, nmBase, nmDelta>>

\* ------------------------------------------------------------ Map helpers
\* Map.prototype.has
MapHas(m, k) == \E i \in 1..Len(m) : m[i].key = k

\* position of key k in the entry list, 0 when absent
MapIndex(m, k) ==
    IF MapHas(m, k) THEN CHOOSE i \in 1..Len(m) : m[i].key = k ELSE 0

\* Map.prototype.get (of a key that is present)
MapGet(m, k) == m[MapIndex(m, k)].value

\* Map.prototype.set: a present key keeps its place, a new key goes last
MapSet(m, k, v) ==
    IF MapHas(m, k)
    THEN [m EXCEPT ![MapIndex(m, k)] = [key |-> k, value |-> v]]
    ELSE Append(m, [key |-> k, value |-> v])

\* a delete that removes nothing
MapDeleteNothing(m, k) == m

\* a delete that removes the oldest entry, whatever its key
MapDeleteOldest(m, k) == IF Len(m) > 0 THEN Tail(m) ELSE m

\* Map.prototype.delete
MapDelete(m, k) ==
    IF MapHas(m, k)
    THEN SubSeq(m, 1, MapIndex(m, k) - 1) \o SubSeq(m, MapIndex(m, k) + 1, Len(m))
    ELSE m

MapKeys(m) == {m[i].key : i \in 1..Len(m)}

\* A live Map iterator is the number of present entries that lie before its
\* cursor; deleting one of those moves the count down with the entries.
IterAfterDelete(idx, m, k) ==
    IF MapHas(m, k) /\ MapIndex(m, k) <= idx THEN idx - 1 ELSE idx

\* ------------------------------------------------------ network and ethers
\* keccak of the signed transaction: one hash per distinct content.  value
\* and gasLimit are the same in every transaction and are left out.
TxHash(tx) == <<tx.nonce, tx.to, tx.maxPriorityFeePerGas, tx.maxFeePerGas>>

\* provider.getTransactionCount(address, "latest")
LatestCount == chainCount

\* provider.getTransactionCount(address, "pending"): the mined transactions
\* and the accepted ones that follow them without a gap
PendingCount ==
    CHOOSE n \in chainCount..(chainCount + Cardinality(accepted)) :
        /\ \A k \in chainCount..(n - 1) : \E t \in accepted : t.nonce = k
        /\ ~ \E t \in accepted : t.nonce = n /\ TxHash(t) \notin mined

\* provider.getTransactionReceipt(txHash): << >> is null
Receipt(h) == IF h \in mined THEN <<h>> ELSE << >>

\* NonceManager.increment, called by sendTransaction before its first await
NonceManagerIncrement(delta) == delta + 1

\* the nonce NonceManager.sendTransaction signs with
SendNonce(base, delta) == base + delta

\* ------------------------------------------------------ processTransaction
\* `!x` on a fee component (line 77): null and 0n are both falsy
Falsy(c) == c = << >> \/ c = <<0>>

\* the test of line 77 with && for ||
FeeMissingBoth(feeData) ==
    Falsy(feeData.maxPriorityFeePerGas) /\ Falsy(feeData.maxFeePerGas)

\* the test of line 77
FeeMissing(feeData) ==
    Falsy(feeData.maxPriorityFeePerGas) \/ Falsy(feeData.maxFeePerGas)

\* tx.to: line 83 of Server.js, line 64 of part_000
TxTo(v, address) == IF v = "backend" THEN OWNER_WALLET ELSE address

\* the object of lines 82-89
BuildTx(v, nonce, feeData, address) ==
    [to |-> TxTo(v, address),
     value |-> TX_VALUE_GWEI,
     gasLimit |-> GAS_LIMIT,
     nonce |-> nonce,
     maxPriorityFeePerGas |-> feeData.maxPriorityFeePerGas,
     maxFeePerGas |-> feeData.maxFeePerGas]

\* line 94 storing the transfer destination of line 83 for the address
RegistryValueOfTx(nonce, score, address) ==
    [nonce |-> nonce, score |-> score, address |-> OWNER_WALLET]

\* the value stored at line 94
RegistryValue(nonce, score, address) ==
    [nonce |-> nonce, score |-> score, address |-> address]

\* line 103 returning no handle
SuccessResultWithoutHandle(hash) ==
    [success |-> TRUE, transactionHash |-> << >>, error |-> << >>]

\* the object returned at line 103
SuccessResult(hash) ==
    [success |-> TRUE, transactionHash |-> <<hash>>, error |-> << >>]

\* line 107 reporting success
FailureResultAsSuccess(message) ==
    [success |-> TRUE, transactionHash |-> << >>, error |-> <<message>>]

\* the object returned at line 107
FailureResult(message) ==
    [success |-> FALSE, transactionHash |-> << >>, error |-> <<message>>]

IdleProc ==
    [pc |-> "idle", owner |-> "none", score |-> 0, address |-> "",
     nonce |-> << >>, feeData |-> << >>, delta |-> << >>, tx |-> << >>,
     signed |-> << >>, hash |-> << >>, result |-> << >>, inserts |-> 0,
     watch |-> "none"]

FreeProcs == {p \in Procs : proc[p].pc = "idle"}
\* invocations are numbered in the order they are made
NextProc == CHOOSE p \in FreeProcs : \A q \in FreeProcs : p <= q

\* processTransaction(score, address) up to its first await (line 70)
CallProcess(pr, p, owner, score, address) ==
    [pr EXCEPT ![p] = [IdleProc EXCEPT !.pc = "getNonce", !.owner = owner,
                                       !.score = score, !.address = address]]

\* the invocation returns: its parameters and locals go out of scope; what
\* stays is the result, the transactionResponse the watcher closes over
\* (signed, hash) and, for the record, the quote line 76 was given
Return(pr, p, result) ==
    [pr EXCEPT ![p].pc = "done", ![p].result = <<result>>,
               ![p].score = 0, ![p].address = "", ![p].nonce = << >>,
               ![p].delta = << >>, ![p].tx = << >>]

\* the catch block, lines 105-108
Catch(pr, p, message) == Return(pr, p, FailureResult(message))

\* the body of res.send in part_000, lines 118-121
QueuedResponse ==
    [success |-> TRUE, transactionHash |-> << >>, error |-> << >>]

\* the body of res.send in Server.js, lines 140-144: `x || null` of a field
\* the result lacks is null
ResultResponse(result) ==
    [success |-> result.success, transactionHash |-> result.transactionHash,
     error |-> result.error]

\* the /jump handler up to its await.  Server.js (lines 135-138) awaits the
\* call; part_000 (lines 115-123) keeps the promise, sends its response and
\* only then awaits.
StartProcess(score, address) ==
    /\ FreeProcs # {}
    /\ proc' = CallProcess(proc, NextProc, "caller", score, address)
    /\ responses' = IF variant = "root"
                     THEN [responses EXCEPT ![NextProc] = <<QueuedResponse>>]
                     ELSE responses
    /\ UNCHANGED <<variant, runs, netVars, nmVars, usedNonces, pendingTransactions, rec>>

\* the /jump handler of Server.js resumes with the result: lines 140-151
JumpRespond(p) ==
    /\ variant = "backend"
    /\ proc[p].owner = "caller"
    /\ proc[p].pc = "done"
    /\ responses[p] = << >>
    /\ responses' = [responses EXCEPT ![p] = <<ResultResponse(proc[p].result[1])>>]
    /\ UNCHANGED <<variant, runs, netVars, nmVars, usedNonces, pendingTransactions,
                   proc, rec>>

\* lines 71-74: the set after the test and the add
TrackNonce(used, nonce) ==
    IF nonce \notin used THEN used \cup {nonce} ELSE used

\* lines 71-74 refusing a nonce the set already holds
AfterNonceRefusingUsed(pr, p, used, nonce) ==
    IF nonce \in used
    THEN Catch(pr, p, ERR_NONCE)
    ELSE [pr EXCEPT ![p].pc = "getFee", ![p].nonce = <<nonce>>]

\* the invocation after lines 70-74, at the await of line 76: the constant
\* nonce is the value line 70 resolved with, whatever the set holds
AfterNonce(pr, p, used, nonce) ==
    [pr EXCEPT ![p].pc = "getFee", ![p].nonce = <<nonce>>]

\* line 70 resolves: lines 70-76
NonceReply(p) ==
    /\ proc[p].pc = "getNonce"
    /\ usedNonces' = TrackNonce(usedNonces, LatestCount)
    /\ proc' = AfterNonce(proc, p, usedNonces, LatestCount)
    /\ UNCHANGED <<variant, runs, responses, netVars, nmVars, pendingTransactions, rec>>

\* line 70 rejects: lines 105-108
NonceFail(p) ==
    /\ proc[p].pc = "getNonce"
    /\ proc' = Catch(proc, p, ERR_NONCE)
    /\ UNCHANGED <<variant, runs, responses, netVars, nmVars, usedNonces, pendingTransactions, rec>>

\* the invocation after lines 77-91, at the first await inside
\* nonceManager.sendTransaction, or after the throw of line 78; delta is the
\* NonceManager's #delta when sendTransaction is entered
AfterFee(pr, p, v, feeData, delta) ==
    IF FeeMissing(feeData)
    THEN Catch([pr EXCEPT ![p].feeData = <<feeData>>], p, ERR_FEE)
    ELSE [pr EXCEPT
            ![p].pc = "send",
            ![p].feeData = <<feeData>>,
            ![p].tx = <<BuildTx(v, pr[p].nonce[1], feeData, pr[p].address)>>,
            ![p].delta = <<delta>>]

\* line 76 resolves with feeData: lines 77-91, up to the first await inside
\* nonceManager.sendTransaction
FeeReply(p, feeData) ==
    /\ proc[p].pc = "getFee"
    /\ proc' = AfterFee(proc, p, variant, feeData, nmDelta)
    /\ IF FeeMissing(feeData)
       THEN UNCHANGED nmVars
       ELSE /\ nmState' = IF nmState = "null" THEN "pending" ELSE nmState
            /\ nmDelta' = NonceManagerIncrement(nmDelta)
            /\ UNCHANGED nmBase
    /\ UNCHANGED <<variant, runs, responses, netVars, usedNonces, pendingTransactions, rec>>

\* line 76 rejects
FeeFail(p) ==
    /\ proc[p].pc = "getFee"
    /\ proc' = Catch(proc, p, ERR_FEE_RPC)
    /\ UNCHANGED <<variant, runs, responses, netVars, nmVars, usedNonces, pendingTransactions, rec>>

\* the NonceManager's one query of the pending count resolves
BaseReply ==
    /\ nmState = "pending"
    /\ nmState' = "resolved"
    /\ nmBase' = PendingCount
    /\ UNCHANGED <<variant, runs, responses, netVars, nmDelta, usedNonces, pendingTransactions,
                   proc, rec>>

\* the transaction nonceManager.sendTransaction signs: tx with its nonce
\* overwritten
SignedTx(tx, base, delta) == [tx EXCEPT !.nonce = SendNonce(base, delta)]

\* the invocation once the broadcast of line 91 was accepted: the
\* transactionResponse carries the signed transaction and its hash
AfterAccept(pr, p, base) ==
    LET s == SignedTx(pr[p].tx[1], base, pr[p].delta[1])
    IN [pr EXCEPT ![p].pc = "accepted", ![p].signed = <<s>>,
                  ![p].hash = <<TxHash(s)>>]

\* the network accepts the broadcast of line 91
NetAccept(p) ==
    /\ proc[p].pc = "send"
    /\ nmState = "resolved"
    /\ accepted' = accepted \cup {SignedTx(proc[p].tx[1], nmBase, proc[p].delta[1])}
    /\ proc' = AfterAccept(proc, p, nmBase)
    /\ UNCHANGED <<variant, runs, responses, chainCount, mined, nmVars, usedNonces,
                   pendingTransactions, rec>>

\* line 91 rejects: populateTransaction, the NonceManager's query of the
\* pending count or the broadcast failed
SendFail(p) ==
    /\ proc[p].pc = "send"
    /\ proc' = Catch(proc, p, ERR_SEND)
    /\ UNCHANGED <<variant, runs, responses, netVars, nmVars, usedNonces, pendingTransactions, rec>>

\* the registry after line 94
Inserted(m, pr, p) ==
    MapSet(m, pr[p].hash[1],
           RegistryValue(pr[p].nonce[1], pr[p].score, pr[p].address))

\* the invocation after lines 92-103: the watcher is set up and the success
\* result returned
Returned(pr, p) ==
    Return([pr EXCEPT ![p].inserts = @ + 1, ![p].watch = "waiting"],
           p, SuccessResult(pr[p].hash[1]))

\* line 91 resolves: lines 92-103
AfterSend(p) ==
    /\ proc[p].pc = "accepted"
    /\ pendingTransactions' = Inserted(pendingTransactions, proc, p)
    /\ proc' = Returned(proc, p)
    /\ UNCHANGED <<variant, runs, responses, netVars, nmVars, usedNonces, rec>>

\* processTransaction awaiting transactionResponse.wait() before it returns
SendReturnAfterWait(p) ==
    /\ proc[p].hash # << >>
    /\ Receipt(proc[p].hash[1]) # << >>
    /\ AfterSend(p)

\* the continuation of the await of line 91; nothing in it waits for a receipt
SendReturn(p) == AfterSend(p)

\* the network mines an accepted transaction, in nonce order
Mine(p) ==
    /\ proc[p].signed # << >>
    /\ proc[p].signed[1] \in accepted
    /\ proc[p].hash[1] \notin mined
    /\ proc[p].signed[1].nonce = chainCount
    /\ mined' = mined \cup {proc[p].hash[1]}
    /\ chainCount' = chainCount + 1
    /\ UNCHANGED <<variant, runs, responses, accepted, nmVars, usedNonces, pendingTransactions,
                   proc, rec>>

\* transactionResponse.wait() of line 96 resolves
WaitResolve(p) ==
    /\ proc[p].watch = "waiting"
    /\ Receipt(proc[p].hash[1]) # << >>
    /\ proc' = [proc EXCEPT ![p].watch = "included"]
    /\ UNCHANGED <<variant, runs, responses, netVars, nmVars, usedNonces, pendingTransactions, rec>>

\* the then callback, lines 96-98
WatcherThen(p) ==
    /\ proc[p].watch = "included"
    /\ pendingTransactions' = MapDelete(pendingTransactions, proc[p].hash[1])
    /\ rec' = [rec EXCEPT !.idx = IterAfterDelete(@, pendingTransactions,
                                                  proc[p].hash[1])]
    /\ proc' = [proc EXCEPT ![p].watch = "removed"]
    /\ UNCHANGED <<variant, runs, responses, netVars, nmVars, usedNonces>>

\* a catch callback that drops the entry of the failed transaction
WaitRejectDropping(p) ==
    /\ proc[p].watch = "waiting"
    /\ proc' = [proc EXCEPT ![p].watch = "failed"]
    /\ pendingTransactions' = MapDelete(pendingTransactions, proc[p].hash[1])
    /\ rec' = [rec EXCEPT !.idx = IterAfterDelete(@, pendingTransactions,
                                                  proc[p].hash[1])]
    /\ UNCHANGED <<variant, runs, responses, netVars, nmVars, usedNonces>>

\* transactionResponse.wait() rejects: the catch callback, lines 99-101
WaitReject(p) ==
    /\ proc[p].watch = "waiting"
    /\ proc' = [proc EXCEPT ![p].watch = "failed"]
    /\ UNCHANGED <<variant, runs, responses, netVars, nmVars, usedNonces, pendingTransactions, rec>>

\* ------------------------------------------------ retryPendingTransactions
\* idx, txHash, data, child and foundPending are the locals of a running
\* pass; startLen, queries, resends and log record what the pass met.
IdleRec ==
    [pc |-> "idle", idx |-> 0, txHash |-> << >>, data |-> << >>, child |-> 0,
     foundPending |-> FALSE, startLen |-> 0, queries |-> 0, resends |-> 0,
     log |-> << >>]

\* the pass is over: its locals go out of scope, the counts stay
EndPass(r, pc) ==
    [IdleRec EXCEPT !.pc = pc, !.startLen = r.startLen,
                    !.queries = r.queries, !.resends = r.resends]

\* the head of the for-of loop of line 116: the iterator's next(), then
\* either the receipt query of line 117 for the entry it yields or, when it
\* is exhausted, lines 128-130.  The iterator is live: it yields entries that
\* were added after the loop began.
LoopHead(r, m) ==
    IF r.idx < Len(m)
    THEN [r EXCEPT !.pc = "receipt", !.idx = r.idx + 1,
                   !.txHash = <<m[r.idx + 1].key>>,
                   !.data = <<m[r.idx + 1].value>>,
                   !.queries = r.queries + 1]
    ELSE EndPass(r, "done")

\* retryPendingTransactions() is called: lines 113-117
StartReconcile ==
    /\ rec.pc \in {"idle", "done", "crashed"}
    /\ rec' = LoopHead([IdleRec EXCEPT !.startLen = Len(pendingTransactions)],
                       pendingTransactions)
    /\ UNCHANGED <<variant, runs, responses, netVars, nmVars, usedNonces, pendingTransactions, proc>>

\* line 118 without the test
ResendAlways(receipt) == TRUE

\* line 118 never resending
ResendNever(receipt) == FALSE

\* the test of line 118
Resend(receipt) == receipt = << >>

\* what the pass notes of the answer to its query
Logged(r) == Append(r.log, <<r.txHash[1], Receipt(r.txHash[1]) # << >> >>)

\* line 117 resolves with a receipt: lines 122-125 and the loop head
ReceiptFound ==
    /\ rec.pc = "receipt"
    /\ ~ Resend(Receipt(rec.txHash[1]))
    /\ pendingTransactions' = MapDelete(pendingTransactions, rec.txHash[1])
    /\ rec' = LoopHead([rec EXCEPT
                  !.idx = IterAfterDelete(@, pendingTransactions, rec.txHash[1]),
                  !.log = Logged(rec)],
               pendingTransactions')
    /\ UNCHANGED <<variant, runs, responses, netVars, nmVars, usedNonces, proc>>

\* line 117 resolves with null: lines 118-120, up to the first await of the
\* processTransaction it calls
ReceiptMissing ==
    /\ rec.pc = "receipt"
    /\ Resend(Receipt(rec.txHash[1]))
    /\ FreeProcs # {}
    /\ proc' = CallProcess(proc, NextProc, "reconcile", rec.data[1].score,
                           rec.data[1].address)
    /\ rec' = [rec EXCEPT !.pc = "process", !.child = NextProc,
                          !.resends = @ + 1, !.log = Logged(rec)]
    /\ UNCHANGED <<variant, runs, responses, netVars, nmVars, usedNonces, pendingTransactions>>

\* line 117 rejects: nothing catches it, the promise of
\* retryPendingTransactions rejects
ReceiptFail ==
    /\ rec.pc = "receipt"
    /\ rec' = EndPass(rec, "crashed")
    /\ UNCHANGED <<variant, runs, responses, netVars, nmVars, usedNonces, pendingTransactions, proc>>

\* the processTransaction of line 120 has returned: line 121 and the loop head
ResendReturned ==
    /\ rec.pc = "process"
    /\ proc[rec.child].pc = "done"
    /\ rec' = LoopHead([rec EXCEPT !.foundPending = TRUE], pendingTransactions)
    /\ UNCHANGED <<variant, runs, responses, netVars, nmVars, usedNonces, pendingTransactions, proc>>

\* ------------------------------------------------------------ specification
EngineInit ==
    /\ variant \in Variants
    /\ chainCount = 0
    /\ accepted = {}
    /\ mined = {}
    /\ nmState = "null"
    /\ nmBase = 0
    /\ nmDelta = 0
    /\ usedNonces = {}
    /\ pendingTransactions = << >>
    /\ proc = [p \in Procs |-> IdleProc]
    /\ rec = IdleRec
    /\ responses = [p \in Procs |-> << >>]

\* the state of the engine after the module is loaded (lines 61-64), for a
\* run whose Set holds seed and whose NonceManager will cache base
FreshWorld(seed, base) ==
    [seed |-> seed, base |-> base, usedNonces |-> seed,
     pendingTransactions |-> << >>, proc |-> [p \in Procs |-> IdleProc],
     nmDelta |-> 0]

Init ==
    /\ EngineInit
    /\ runs = [i \in Runs |-> FreshWorld({}, 0)]

Next ==
    \/ \E r \in Requests : StartProcess(r[1], r[2])
    \/ \E p \in Procs : JumpRespond(p)
    \/ \E p \in Procs : NonceReply(p)
    \/ \E p \in Procs : NonceFail(p)
    \/ \E p \in Procs, f \in FeeQuotes : FeeReply(p, f)
    \/ \E p \in Procs : FeeFail(p)
    \/ BaseReply
    \/ \E p \in Procs : NetAccept(p)
    \/ \E p \in Procs : SendFail(p)
    \/ \E p \in Procs : SendReturn(p)
    \/ \E p \in Procs : Mine(p)
    \/ \E p \in Procs : WaitResolve(p)
    \/ \E p \in Procs : WatcherThen(p)
    \/ \E p \in Procs : WaitReject(p)
    \/ StartReconcile
    \/ ReceiptFound
    \/ ReceiptMissing
    \/ ReceiptFail
    \/ ResendReturned

Spec == Init /\ [][Next]_vars

\* The event loop runs a continuation whose promise has settled; nothing
\* obliges the network to answer or to mine.
FairSpec ==
    /\ Spec
    /\ \A p \in Procs : WF_vars(SendReturn(p))
    /\ \A p \in Procs : WF_vars(WatcherThen(p))
    /\ WF_vars(ResendReturned)

\* ------------------------------------------------- the server's lifetime
\* Spec lets retryPendingTransactions be called at any moment, which is what
\* the function allows.  The server itself calls it in one place, the
\* callback of app.listen (lines 155-159), which runs once, when the socket
\* is bound and before any request is accepted.

\* requests served without waiting for the callback of app.listen
ListeningFromTheStart == TRUE

\* the socket accepts requests once the callback of app.listen has been
\* called; that call is the one that starts the pass
Listening == rec.pc # "idle"

\* the callback of app.listen: lines 155-159
ListenCallback ==
    /\ rec.pc = "idle"
    /\ StartReconcile

\* a /jump request reaches the handler
Jump(score, address) ==
    /\ Listening
    /\ StartProcess(score, address)

\* The steps of a pass beyond its start (ReceiptFound, ReceiptMissing,
\* ReceiptFail, ResendReturned) are left out: each is guarded by rec.pc being
\* "receipt" or "process", and the pass started by ListenCallback runs over
\* the empty Map of line 63, so it ends in the step that starts it.
ServerNext ==
    \/ ListenCallback
    \/ \E r \in Requests : Jump(r[1], r[2])
    \/ \E p \in Procs : JumpRespond(p)
    \/ \E p \in Procs : NonceReply(p)
    \/ \E p \in Procs : NonceFail(p)
    \/ \E p \in Procs, f \in FeeQuotes : FeeReply(p, f)
    \/ \E p \in Procs : FeeFail(p)
    \/ BaseReply
    \/ \E p \in Procs : NetAccept(p)
    \/ \E p \in Procs : SendFail(p)
    \/ \E p \in Procs : SendReturn(p)
    \/ \E p \in Procs : Mine(p)
    \/ \E p \in Procs : WaitResolve(p)
    \/ \E p \in Procs : WatcherThen(p)
    \/ \E p \in Procs : WaitReject(p)

ServerSpec == Init /\ [][ServerNext]_vars

\* The callback of app.listen is called once the socket is bound, and the
\* event loop runs a continuation whose promise has settled; nothing obliges
\* the network to answer or to mine.
FairServerSpec ==
    /\ ServerSpec
    /\ WF_vars(ListenCallback)
    /\ \A p \in Procs : WF_vars(SendReturn(p))
    /\ \A p \in Procs : WF_vars(WatcherThen(p))

\* ------------------------------------------------------- a pair of runs
\* processTransaction and its watcher as a function of the engine state w of
\* one run, the invocation p and the answer the step is given.  A pair of
\* runs is started with any two contents of the Set of line 64 and is then
\* given every call and every answer in common.  A run takes a step only if
\* its own invocation p is at the place the step resumes.

\* invocations are numbered in the order they are made
CallableIn(w, p) ==
    /\ w.proc[p].pc = "idle"
    /\ \A q \in Procs : q < p => w.proc[q].pc # "idle"

\* processTransaction(score, address) up to line 70
WorldCall(w, p, score, address) ==
    [w EXCEPT !.proc = CallProcess(@, p, "caller", score, address)]

\* lines 70-76 with the nonce n
WorldNonce(w, p, n) ==
    [w EXCEPT !.usedNonces = TrackNonce(@, n),
              !.proc = AfterNonce(w.proc, p, w.usedNonces, n)]

\* lines 105-108
WorldCatch(w, p, message) == [w EXCEPT !.proc = Catch(@, p, message)]

\* lines 77-91 with the quote feeData
WorldFee(w, p, feeData) ==
    [w EXCEPT !.proc = AfterFee(w.proc, p, variant, feeData, w.nmDelta),
              !.nmDelta = IF FeeMissing(feeData)
                          THEN @ ELSE NonceManagerIncrement(@)]

\* line 91: the broadcast is accepted
WorldAccept(w, p) == [w EXCEPT !.proc = AfterAccept(@, p, w.base)]

\* lines 92-103
WorldReturn(w, p) ==
    [w EXCEPT !.pendingTransactions = Inserted(@, w.proc, p),
              !.proc = Returned(@, p)]

\* wait() of line 96 resolves
WorldWaitResolve(w, p) == [w EXCEPT !.proc[p].watch = "included"]

\* lines 96-98
WorldThen(w, p) ==
    [w EXCEPT !.pendingTransactions = MapDelete(@, w.proc[p].hash[1]),
              !.proc[p].watch = "removed"]

\* lines 99-101
WorldWaitReject(w, p) == [w EXCEPT !.proc[p].watch = "failed"]

\* the same call reaches both runs
TwinCall(p, score, address) ==
    /\ \E i \in Runs : CallableIn(runs[i], p)
    /\ runs' = [i \in Runs |->
                  IF CallableIn(runs[i], p)
                  THEN WorldCall(runs[i], p, score, address) ELSE runs[i]]
    /\ UNCHANGED engineVars

\* line 70 resolves with n in both runs
TwinNonceReply(p, n) ==
    /\ \E i \in Runs : runs[i].proc[p].pc = "getNonce"
    /\ runs' = [i \in Runs |->
                  IF runs[i].proc[p].pc = "getNonce"
                  THEN WorldNonce(runs[i], p, n) ELSE runs[i]]
    /\ UNCHANGED engineVars

\* line 70 rejects in both runs
TwinNonceFail(p) ==
    /\ \E i \in Runs : runs[i].proc[p].pc = "getNonce"
    /\ runs' = [i \in Runs |->
                  IF runs[i].proc[p].pc = "getNonce"
                  THEN WorldCatch(runs[i], p, ERR_NONCE) ELSE runs[i]]
    /\ UNCHANGED engineVars

\* line 76 resolves with feeData in both runs
TwinFeeReply(p, feeData) ==
    /\ \E i \in Runs : runs[i].proc[p].pc = "getFee"
    /\ runs' = [i \in Runs |->
                  IF runs[i].proc[p].pc = "getFee"
                  THEN WorldFee(runs[i], p, feeData) ELSE runs[i]]
    /\ UNCHANGED engineVars

\* line 76 rejects in both runs
TwinFeeFail(p) ==
    /\ \E i \in Runs : runs[i].proc[p].pc = "getFee"
    /\ runs' = [i \in Runs |->
                  IF runs[i].proc[p].pc = "getFee"
                  THEN WorldCatch(runs[i], p, ERR_FEE_RPC) ELSE runs[i]]
    /\ UNCHANGED engineVars

\* the network accepts the broadcast of line 91 in both runs
TwinAccept(p) ==
    /\ \E i \in Runs : runs[i].proc[p].pc = "send"
    /\ runs' = [i \in Runs |->
                  IF runs[i].proc[p].pc = "send"
                  THEN WorldAccept(runs[i], p) ELSE runs[i]]
    /\ UNCHANGED engineVars

\* line 91 rejects in both runs
TwinSendFail(p) ==
    /\ \E i \in Runs : runs[i].proc[p].pc = "send"
    /\ runs' = [i \in Runs |->
                  IF runs[i].proc[p].pc = "send"
                  THEN WorldCatch(runs[i], p, ERR_SEND) ELSE runs[i]]
    /\ UNCHANGED engineVars

\* line 91 resolves in both runs: lines 92-103
TwinSendReturn(p) ==
    /\ \E i \in Runs : runs[i].proc[p].pc = "accepted"
    /\ runs' = [i \in Runs |->
                  IF runs[i].proc[p].pc = "accepted"
                  THEN WorldReturn(runs[i], p) ELSE runs[i]]
    /\ UNCHANGED engineVars

\* wait() resolves in both runs
TwinWaitResolve(p) ==
    /\ \E i \in Runs : runs[i].proc[p].watch = "waiting"
    /\ runs' = [i \in Runs |->
                  IF runs[i].proc[p].watch = "waiting"
                  THEN WorldWaitResolve(runs[i], p) ELSE runs[i]]
    /\ UNCHANGED engineVars

\* the then callback runs in both runs
TwinWatcherThen(p) ==
    /\ \E i \in Runs : runs[i].proc[p].watch = "included"
    /\ runs' = [i \in Runs |->
                  IF runs[i].proc[p].watch = "included"
                  THEN WorldThen(runs[i], p) ELSE runs[i]]
    /\ UNCHANGED engineVars

\* wait() rejects in both runs
TwinWaitReject(p) ==
    /\ \E i \in Runs : runs[i].proc[p].watch = "waiting"
    /\ runs' = [i \in Runs |->
                  IF runs[i].proc[p].watch = "waiting"
                  THEN WorldWaitReject(runs[i], p) ELSE runs[i]]
    /\ UNCHANGED engineVars

\* the two runs differ in nothing but the content of the Set
TwinInit ==
    /\ EngineInit
    /\ \E base \in NonceAnswers, seed1 \in NonceSets, seed2 \in NonceSets :
          runs = [i \in Runs |->
                    FreshWorld(IF i = 1 THEN seed1 ELSE seed2, base)]

TwinNext ==
    \/ \E p \in Procs, r \in Requests : TwinCall(p, r[1], r[2])
    \/ \E p \in Procs, n \in NonceAnswers : TwinNonceReply(p, n)
    \/ \E p \in Procs : TwinNonceFail(p)
    \/ \E p \in Procs, f \in FeeQuotes : TwinFeeReply(p, f)
    \/ \E p \in Procs : TwinFeeFail(p)
    \/ \E p \in Procs : TwinAccept(p)
    \/ \E p \in Procs : TwinSendFail(p)
    \/ \E p \in Procs : TwinSendReturn(p)
    \/ \E p \in Procs : TwinWaitResolve(p)
    \/ \E p \in Procs : TwinWatcherThen(p)
    \/ \E p \in Procs : TwinWaitReject(p)

TwinSpec == TwinInit /\ [][TwinNext]_vars

\* ------------------------------------------------------------------ claims
Done(p) == proc[p].pc = "done"
Succeeded(p) == Done(p) /\ proc[p].result[1].success
Failed(p) == Done(p) /\ ~ proc[p].result[1].success

\* C1: the nonces that line 70 hands to any two processTransaction
\* invocations are distinct.
C1_NoncesPairwiseDistinct ==
    \A p, q \in Procs :
        (p # q /\ proc[p].nonce # << >> /\ proc[q].nonce # << >>)
            => proc[p].nonce[1] # proc[q].nonce[1]

\* C2: the step in which an invocation returns success with handle h is one
\* insertion of a new key h whose value is the invocation's nonce, score and
\* address; h is in the registry when it returns, nothing else in the
\* registry changes, and an invocation that has not returned success has
\* inserted nothing.
C2_SuccessInsertsOneEntry ==
    [][\A p \in Procs :
        /\ proc'[p].inserts =
              IF proc'[p].pc = "done" /\ proc'[p].result[1].success THEN 1 ELSE 0
        /\ (proc[p].pc # "done" /\ proc'[p].pc = "done"
                /\ proc'[p].result[1].success)
            => LET h == proc'[p].result[1].transactionHash[1]
               IN /\ ~ MapHas(pendingTransactions, h)
                  /\ pendingTransactions' =
                        Append(pendingTransactions,
                               [key |-> h,
                                value |-> [nonce |-> proc[p].nonce[1],
                                           score |-> proc[p].score,
                                           address |-> proc[p].address]])
      ]_vars

C2_Witness ==
    \E p \in Procs :
        /\ Succeeded(p)
        /\ proc[p].inserts = 1
        /\ MapHas(pendingTransactions, proc[p].result[1].transactionHash[1])

\* the step ends a pass that began with one entry
EndsPassOverOne == rec.pc \in {"receipt", "process"} /\ rec'.pc = "done"
                       /\ rec.startLen = 1

\* C3: a pass over a registry of one entry without a receipt, whose resend
\* succeeded, ends with the old entry removed, one processTransaction
\* invocation made and one new entry, the resend's, in the registry.
C3_ResendReplacesEntry ==
    [][(/\ EndsPassOverOne
        /\ Len(rec.log) >= 1
        /\ ~ rec.log[1][2]
        /\ rec.child # 0
        /\ Succeeded(rec.child))
        => /\ ~ MapHas(pendingTransactions', rec.log[1][1])
           /\ rec'.resends = 1
           /\ MapKeys(pendingTransactions') = {proc[rec.child].hash[1]}
      ]_vars

\* the step resumes the pass with the answer to its receipt query
ReceiptAnswered ==
    /\ rec.pc = "receipt"
    /\ rec'.pc # "crashed"
    /\ rec'.pc # "receipt" \/ rec'.queries # rec.queries

\* C4: when the receipt query for the one entry the pass began with is
\* answered with a receipt, and the registry holds no other entry, that step
\* removes the entry, ends the pass and invokes no processTransaction.
C4_ConfirmedEntryRemoved ==
    [][(/\ ReceiptAnswered
        /\ rec.startLen = 1 /\ rec.queries = 1
        /\ MapKeys(pendingTransactions) \subseteq {rec.txHash[1]}
        /\ Receipt(rec.txHash[1]) # << >>)
        => /\ pendingTransactions' = << >>
           /\ rec'.pc = "done"
           /\ rec'.resends = 0
           /\ proc' = proc
           /\ accepted' = accepted
           /\ nmDelta' = nmDelta
      ]_vars

C4_Witness ==
    /\ rec.pc = "done"
    /\ rec.startLen = 1
    /\ rec.queries = 1
    /\ rec.resends = 0
    /\ pendingTransactions = << >>
    /\ \E p \in Procs : Succeeded(p) /\ proc[p].hash[1] \in mined
                            /\ proc[p].watch \in {"waiting", "failed"}

\* C5: once wait() has resolved for a handle, the handle leaves the registry
\* and never comes back.
C5_ConfirmedHandleLeaves ==
    \A p \in Procs :
        (proc[p].watch = "included")
            ~> [](proc[p].hash # << >>
                    /\ ~ MapHas(pendingTransactions, proc[p].hash[1]))

C5_Witness ==
    \E p \in Procs :
        /\ proc[p].watch = "removed"
        /\ ~ MapHas(pendingTransactions, proc[p].hash[1])
        /\ \E q \in Procs : q # p /\ Succeeded(q)
                /\ MapHas(pendingTransactions, proc[q].hash[1])

\* the quote lacks a component
Lacks(feeData) ==
    feeData.maxPriorityFeePerGas = << >> \/ feeData.maxFeePerGas = << >>

\* C6: an invocation whose fee quote lacks a component has returned failure
\* with an error detail, built and broadcast nothing, started no watcher and
\* inserted nothing.
C6_MissingFeeFails ==
    \A p \in Procs :
        (proc[p].feeData # << >> /\ Lacks(proc[p].feeData[1]))
            => /\ Failed(p)
               /\ proc[p].result[1].error # << >>
               /\ proc[p].result[1].transactionHash = << >>
               /\ proc[p].tx = << >>
               /\ proc[p].signed = << >>
               /\ proc[p].watch = "none"
               /\ proc[p].hash = << >>
               /\ proc[p].inserts = 0

C6_Witness ==
    \E p \in Procs :
        /\ proc[p].feeData # << >>
        /\ Lacks(proc[p].feeData[1])
        /\ Failed(p)
        /\ Len(pendingTransactions) > 0

\* C7: every broadcast transaction goes to the operator's wallet, not to the
\* address the caller passed, with the fixed value and gas limit.
C7_DestinationIsOwner ==
    \A p \in Procs :
        proc[p].signed # << >>
            => /\ proc[p].signed[1].to = OWNER_WALLET
               /\ proc[p].pc = "accepted"
                    => proc[p].signed[1].to # proc[p].address
               /\ proc[p].signed[1].value = TX_VALUE_GWEI
               /\ proc[p].signed[1].gasLimit = GAS_LIMIT

\* what does hold of C7: the copy in src/backend/Server.js always sends to
\* the operator's wallet; only the copy in part_000 sends to the caller's
\* address.
DestinationIsOwnerInBackend == variant = "backend" => C7_DestinationIsOwner

\* C8: the nonce in a registry entry is the nonce of the transaction that
\* was broadcast under its handle and the nonce line 70 returned.
C8_RegistryNonceIsBroadcastNonce ==
    \A p \in Procs :
        (proc[p].hash # << >> /\ MapHas(pendingTransactions, proc[p].hash[1]))
            => MapGet(pendingTransactions, proc[p].hash[1]).nonce
                   = proc[p].signed[1].nonce

\* the step is the return of p after its nonce query failed / after its
\* send was rejected
NonceQueryFails(p) == proc[p].pc = "getNonce" /\ proc'[p].pc = "done"
SendRejects(p) == proc[p].pc = "send" /\ proc'[p].pc = "done"

\* C9: an invocation whose nonce query fails or whose send is rejected
\* returns, in that step, failure with an error detail and no handle, and the
\* step leaves the registry and the network alone; after a nonce failure it
\* has fetched no fee and sent nothing; a failed invocation never acts again:
\* no insertion, no watcher.
C9_FailureShortCircuits ==
    [][\A p \in Procs :
        /\ (NonceQueryFails(p) \/ SendRejects(p))
            => /\ ~ proc'[p].result[1].success
               /\ proc'[p].result[1].error # << >>
               /\ proc'[p].result[1].transactionHash = << >>
               /\ proc'[p].hash = << >>
               /\ proc'[p].inserts = 0
               /\ proc'[p].watch = "none"
               /\ pendingTransactions' = pendingTransactions
               /\ accepted' = accepted
        /\ NonceQueryFails(p)
            => /\ proc'[p].feeData = << >>
               /\ nmDelta' = nmDelta
               /\ nmState' = nmState
        /\ Failed(p)
            => /\ proc[p].hash = << >>
               /\ proc[p].inserts = 0
               /\ proc[p].watch = "none"
               /\ proc'[p] = proc[p]
      ]_vars

C9_Witness ==
    /\ \E p \in Procs : Failed(p) /\ proc[p].result[1].error = <<ERR_NONCE>>
    /\ \E p \in Procs : Failed(p) /\ proc[p].result[1].error = <<ERR_SEND>>

\* C10: once the send has resolved the invocation returns success with the
\* handle whether or not the network ever mines the transaction, and at the
\* return the watcher is waiting.
C10_ReturnsWithoutInclusion ==
    /\ \A p \in Procs :
        (proc[p].pc = "accepted")
            ~> (Succeeded(p)
                  /\ proc[p].result[1].transactionHash = proc[p].hash)
    /\ [][\A p \in Procs :
            (proc[p].pc = "accepted" /\ proc'[p].pc = "done")
                => proc'[p].watch = "waiting"]_vars

C10_Witness ==
    \E p \in Procs :
        /\ Succeeded(p)
        /\ proc[p].hash[1] \notin mined
        /\ proc[p].watch = "waiting"
        /\ chainCount = 0

\* C11: a response to a /jump request is sent only once the request's
\* broadcast has succeeded or failed, and its success field and handle are
\* those of that outcome; no response says success while the broadcast is
\* still under way or has failed.
C11_ResponseFollowsBroadcast ==
    \A p \in Procs :
        responses[p] # << >>
            => /\ Done(p)
               /\ responses[p][1].success = proc[p].result[1].success
               /\ responses[p][1].transactionHash
                     = proc[p].result[1].transactionHash

\* what does hold of C11: the handler of src/backend/Server.js answers with
\* the outcome of the broadcast; only the handler of part_000 answers before
\* it.
ResponseFollowsBroadcastInBackend ==
    variant = "backend" => C11_ResponseFollowsBroadcast

\* the step is the catch callback of p's watcher
WatcherFails(p) == proc[p].watch = "waiting" /\ proc'[p].watch = "failed"

\* C12: the step in which the watcher of a handle ends with an error leaves
\* the whole registry as it was, the entry of the handle included; it changes
\* no result and no response and does not end the pass; and a watcher that
\* has failed never acts again.
C12_WatcherErrorLeavesEntry ==
    [][\A p \in Procs :
        /\ WatcherFails(p)
            => /\ pendingTransactions' = pendingTransactions
               /\ proc'[p].result = proc[p].result
               /\ \A q \in Procs : q # p => proc'[q] = proc[q]
               /\ responses' = responses
               /\ rec' = rec
        /\ proc[p].watch = "failed" => proc'[p].watch = "failed"
      ]_vars

C12_Witness ==
    \E p, q \in Procs :
        /\ p # q
        /\ proc[p].watch = "failed"
        /\ Succeeded(p)
        /\ MapHas(pendingTransactions, proc[p].hash[1])
        /\ proc[q].hash # << >>
        /\ MapHas(pendingTransactions, proc[q].hash[1])

\* the entry of p's handle is in the registry though p's watcher has failed
LeftBehind(p) ==
    /\ proc[p].watch = "failed"
    /\ MapHas(pendingTransactions, proc[p].hash[1])

\* C13: an entry left in the registry by a failed watcher is eventually
\* taken out of it by a pass of the same server run.
C13_LeftEntryResolved ==
    \A p \in Procs :
        LeftBehind(p)
            ~> (proc[p].hash # << >>
                  /\ ~ MapHas(pendingTransactions, proc[p].hash[1]))

\* what does hold against C13: in the server's lifetime no step takes out an
\* entry whose watcher has failed, and no pass follows the one of start-up.
LeftEntryStaysForGood ==
    [][/\ \A p \in Procs :
            LeftBehind(p) => MapHas(pendingTransactions', proc[p].hash[1])
       /\ rec.pc = "done" => rec' = rec]_vars

\* C19: the pass is called once, by the callback of app.listen, on an empty
\* registry: it makes no receipt query, invokes no processTransaction and
\* leaves the registry alone, it is over in the step that starts it, and no
\* other step ever starts or resumes a pass.
C19_StartupPassOnEmptyRegistry ==
    /\ [](/\ rec.pc \in {"idle", "done"}
          /\ rec.startLen = 0 /\ rec.queries = 0 /\ rec.resends = 0
          /\ rec.pc = "idle" => pendingTransactions = << >>)
    /\ [][rec' # rec
            => /\ rec.pc = "idle" /\ rec'.pc = "done"
               /\ pendingTransactions = << >>
               /\ pendingTransactions' = pendingTransactions
               /\ proc' = proc
               /\ accepted' = accepted]_vars
    /\ <>(rec.pc = "done")

C19_Witness ==
    /\ rec.pc = "done"
    /\ rec.startLen = 0
    /\ rec.queries = 0
    /\ Len(pendingTransactions) = 2

\* the pass ended by an error nothing caught: the promise of
\* retryPendingTransactions rejected
PassRejected == rec.pc = "crashed"

\* C14: no failure of a network call escapes uncaught: an invocation that
\* met one has returned a failure result, a watcher that met one has ended
\* in its catch callback, and a pass whose receipt query failed has not
\* ended with a rejected promise.
C14_NoFailureEscapes ==
    /\ \A p \in Procs :
          (Done(p) /\ proc[p].hash = << >>) => Failed(p)
    /\ ~ PassRejected

\* what does hold of C14: every failure inside processTransaction and its
\* watcher is caught (lines 99-101 and 105-108), and a failed receipt query
\* leaves the registry as it was; only the pass itself is not protected.
FailuresOfProcessAreCaught ==
    [][/\ \A p \in Procs :
            /\ (proc[p].pc \in {"getNonce", "getFee", "send"}
                    /\ proc'[p].pc = "done")
                => (~ proc'[p].result[1].success
                      /\ proc'[p].result[1].error # << >>)
            /\ proc'[p].watch = "failed" => Succeeded(p)
       /\ (~ PassRejected /\ PassRejected')
            => pendingTransactions' = pendingTransactions]_vars

\* C15: nothing stands between a missing receipt and a second transfer: the
\* step that resumes the pass with no receipt for an entry invokes
\* processTransaction with the entry's score and address, also when the
\* network still holds the entry's transaction, and it neither withdraws
\* that transaction nor drops its entry.
C15_ResendWithoutDeduplication ==
    [][(/\ ReceiptAnswered
        /\ Receipt(rec.txHash[1]) = << >>)
        => /\ rec'.pc = "process"
           /\ rec'.resends = rec.resends + 1
           /\ proc[rec'.child].pc = "idle"
           /\ proc'[rec'.child].pc = "getNonce"
           /\ proc'[rec'.child].score = rec.data[1].score
           /\ proc'[rec'.child].address = rec.data[1].address
           /\ accepted' = accepted
           /\ pendingTransactions' = pendingTransactions
      ]_vars

\* both the transaction of a request and the one the pass sent in its place
\* are mined: two transfers of the same value to the same destination for
\* one score and address
C15_Witness ==
    \E p, q \in Procs :
        /\ p # q
        /\ proc[p].owner = "caller"
        /\ proc[q].owner = "reconcile"
        /\ rec.child = q
        /\ Succeeded(p) /\ Succeeded(q)
        /\ \E i \in 1..Len(rec.log) : rec.log[i] = <<proc[p].hash[1], FALSE>>
        /\ proc[p].hash[1] \in mined
        /\ proc[q].hash[1] \in mined
        /\ proc[p].signed[1].to = proc[q].signed[1].to
        /\ proc[p].signed[1].value = proc[q].signed[1].value
        /\ MapHas(pendingTransactions, proc[p].hash[1])
        /\ MapHas(pendingTransactions, proc[q].hash[1])
        /\ MapGet(pendingTransactions, proc[p].hash[1]).score
             = MapGet(pendingTransactions, proc[q].hash[1]).score
        /\ MapGet(pendingTransactions, proc[p].hash[1]).address
             = MapGet(pendingTransactions, proc[q].hash[1]).address

\* the step is the then callback of the watcher of handle h
WatcherRemoves(h) ==
    \E p \in Procs :
        /\ proc[p].hash = <<h>>
        /\ proc[p].watch = "included"
        /\ proc'[p].watch = "removed"

\* the step resumes the pass with a receipt for handle h
ReconcileRemoves(h) ==
    /\ ReceiptAnswered
    /\ rec.txHash = <<h>>
    /\ Receipt(h) # << >>

\* the step is the successful return of the invocation whose handle is h
ProcessInserts(h) ==
    \E p \in Procs :
        /\ proc[p].pc = "accepted"
        /\ proc'[p].pc = "done"
        /\ proc[p].hash = <<h>>

\* C16: whatever the interleaving, the registry holds no key twice; a key
\* leaves it only in the then callback of its own watcher or when the pass
\* got a receipt for it; a key enters it only at the successful return of the
\* invocation it is the handle of, and was not there before; and every entry
\* a step neither removes nor inserts keeps its value and its order.
C16_NoEntryLostOrDuplicated ==
    /\ [](\A i, j \in 1..Len(pendingTransactions) :
            i # j => pendingTransactions[i].key # pendingTransactions[j].key)
    /\ [][/\ \A h \in MapKeys(pendingTransactions) \ MapKeys(pendingTransactions') :
                /\ WatcherRemoves(h) \/ ReconcileRemoves(h)
                /\ pendingTransactions' = MapDelete(pendingTransactions, h)
          /\ \A h \in MapKeys(pendingTransactions') \ MapKeys(pendingTransactions) :
                /\ ProcessInserts(h)
                /\ SubSeq(pendingTransactions', 1, Len(pendingTransactions))
                      = pendingTransactions
          /\ \A h \in MapKeys(pendingTransactions) \cap MapKeys(pendingTransactions') :
                MapGet(pendingTransactions', h) = MapGet(pendingTransactions, h)
          /\ \A p \in Procs :
                (Succeeded(p) /\ proc[p].watch \in {"waiting", "included"}
                    /\ MapHas(pendingTransactions, proc[p].hash[1])
                    /\ ~ ReconcileRemoves(proc[p].hash[1])
                    /\ ~ WatcherRemoves(proc[p].hash[1]))
                  => MapHas(pendingTransactions', proc[p].hash[1])
         ]_vars

\* a watcher has removed its own entry while a pass was under way and the
\* entry of another handle, inserted in between, is still there with its value
C16_Witness ==
    \E p, q \in Procs :
        /\ p # q
        /\ rec.pc \in {"receipt", "process"}
        /\ proc[p].watch = "removed"
        /\ Succeeded(q)
        /\ proc[q].watch = "waiting"
        /\ pendingTransactions # << >>
        /\ MapKeys(pendingTransactions) = {proc[q].hash[1]}
        /\ MapGet(pendingTransactions, proc[q].hash[1]).score \in {42, 7}

\* C17: a pass makes at most as many receipt queries, and invokes
\* processTransaction at most as many times, as the registry held entries
\* when the pass began.
C17_PassBoundedByStartSize ==
    /\ rec.queries <= rec.startLen
    /\ rec.resends <= rec.startLen

\* the two shapes of a RelayResult
WellFormed(r) ==
    /\ r.success <=> (r.transactionHash # << >> /\ r.error = << >>)
    /\ (~ r.success) <=> (r.error # << >> /\ r.transactionHash = << >>)

\* C18: every invocation that has left processTransaction has returned one
\* result, and every result is well-formed: success exactly when it carries
\* a handle and no error detail, failure exactly when it carries an error
\* detail and no handle; the handle is the one of the broadcast.
C18_ResultWellFormed ==
    \A p \in Procs :
        /\ proc[p].pc \in {"idle", "getNonce", "getFee", "send", "accepted", "done"}
        /\ proc[p].pc = "done" <=> proc[p].result # << >>
        /\ proc[p].result # << >>
            => /\ WellFormed(proc[p].result[1])
               /\ proc[p].result[1].success
                    => proc[p].result[1].transactionHash = proc[p].hash
               /\ (~ proc[p].result[1].success) => proc[p].hash = << >>

C18_Witness ==
    /\ \E p \in Procs :
          /\ Succeeded(p)
          /\ proc[p].result[1].transactionHash = proc[p].hash
          /\ proc[p].result[1].error = << >>
    /\ \E p \in Procs :
          /\ Failed(p)
          /\ proc[p].result[1].error = <<ERR_FEE>>
          /\ proc[p].result[1].transactionHash = << >>

\* the two runs were started with different sets
SeedsDiffer == runs[1].seed # runs[2].seed

\* the step resumes invocation p of run w after its nonce query resolved
NonceResolves(i, p) ==
    runs[i].proc[p].pc = "getNonce" /\ runs'[i].proc[p].pc = "getFee"

\* C20: the set has no say in what an invocation does.  Two runs that are
\* started with different contents of the set and are given the same calls
\* and the same answers stay equal in everything but the set: every
\* invocation is at the same place with the same transaction, the same
\* signed transaction and handle and the same result, and the registries
\* are equal.  A nonce the set already holds is still the nonce of the
\* transaction that is built; the set never loses a member, and it changes
\* only in the step that follows the nonce query, by gaining the fetched
\* nonce.
C20_UsedNoncesIsInert ==
    /\ [](/\ runs[1].proc = runs[2].proc
          /\ runs[1].pendingTransactions = runs[2].pendingTransactions
          /\ runs[1].nmDelta = runs[2].nmDelta
          /\ \A i \in Runs, p \in Procs :
                runs[i].proc[p].tx # << >>
                    => runs[i].proc[p].tx[1].nonce = runs[i].proc[p].nonce[1])
    /\ [][\A i \in Runs :
            /\ runs[i].usedNonces \subseteq runs'[i].usedNonces
            /\ runs'[i].usedNonces # runs[i].usedNonces
                  => \E p \in Procs :
                        /\ NonceResolves(i, p)
                        /\ runs'[i].usedNonces
                              = runs[i].usedNonces \cup {runs'[i].proc[p].nonce[1]}
            /\ \A p \in Procs :
                  NonceResolves(i, p)
                      => runs'[i].proc[p].nonce[1] \in runs'[i].usedNonces
         ]_vars

\* an invocation fetched a nonce that one run's set held from the start and
\* the other's did not; in both runs it returned success with the same
\* handle, and both registries hold the entry with that nonce
C20_Witness ==
    \E p \in Procs :
        /\ SeedsDiffer
        /\ \A i \in Runs :
              /\ runs[i].proc[p].pc = "done"
              /\ runs[i].proc[p].result[1].success
              /\ MapHas(runs[i].pendingTransactions, runs[i].proc[p].hash[1])
        /\ runs[1].proc[p].result = runs[2].proc[p].result
        /\ LET n == MapGet(runs[1].pendingTransactions,
                           runs[1].proc[p].hash[1]).nonce
           IN n \in runs[1].seed /\ n \notin runs[2].seed

====
